---- MODULE Spec2Model ----
(***************************************************************************)
(* A model of the TLV decoder of package tlv (decode.go): readVarNum,      *)
(* readTLV, decodeUint64, decodeValue, decode, decodeStruct and Unmarshal. *)
(*                                                                         *)
(* A byte is a number in 0..255.  A uint64 is kept as the tuple of its 8   *)
(* big-endian bytes, which keeps all 64 bits (what binary.BigEndian reads  *)
(* and writes).  An error is a string, "nil" for no error; "panic" stands  *)
(* for a run-time panic of package reflect or a nil dereference, which no  *)
(* caller of the package recovers.                                         *)
(***************************************************************************)
EXTENDS Integers, Sequences, FiniteSets, TLC

VARIABLES
    pc,        \* the position of the modelled call
    buf,       \* the Reader the call reads from: its byte source and offset
    value,     \* the destination (reflect.Value) being decoded into
    vtype,     \* the destination's Go type: a named type and the pointers to it
    settable,  \* value.CanSet() of the destination
    valType,   \* the expected type number
    once,      \* decode's local `once`
    err,       \* the error of the call so far
    iters,     \* how many iterations decode's loop has begun
    recs,      \* how many whole records decode's loop has consumed
    start,     \* the destination and the Reader when the call began
    orig,      \* <<the value Marshal encoded>>, or <<>>
    fld,       \* decodeStruct's loop index i (0-based, as in the source)
    last,      \* what the last iteration did
    absent,    \* the optional fields whose type number Peek did not return
    num,       \* the number handed to the VarNum encoder
    v          \* the number readVarNum returned

vars == <<pc, buf, value, vtype, settable, valType, once, err, iters, recs,
          start, orig, fld, last, absent, num, v>>

(***************************************************************************)
(* Bytes and 64-bit numbers                                                *)
(***************************************************************************)
Pow2(n) == 2^n

\* uint64(x) for a byte string x of 1, 2, 4 or 8 big-endian bytes
Widen(b) == [k \in 1..8 |-> IF k + Len(b) > 8 THEN b[k + Len(b) - 8] ELSE 0]

\* the uint64 of a number below 2^31
U64(n) == <<0, 0, 0, 0, (n \div Pow2(24)) % 256, (n \div Pow2(16)) % 256,
            (n \div 256) % 256, n % 256>>

MaxUint64 == [k \in 1..8 |-> 255]

\* a < 2^24, so that the model can count with it
Small(a) == \A k \in 1..5 : a[k] = 0

ToInt(a) == a[6] * Pow2(16) + a[7] * 256 + a[8]

\* a > n for a uint64 a and a number n < 2^24
Greater(a, n) == ~Small(a) \/ ToInt(a) > n

maxSize == 8800

(***************************************************************************)
(* The byte source.  A source is `bytes` followed by `pad` zero bytes, so  *)
(* that a source longer than maxSize stays small in the model.             *)
(***************************************************************************)
Size(r) == Len(r.bytes) + r.pad

At(r, k) == IF k <= Len(r.bytes) THEN r.bytes[k] ELSE 0

NewReader(b) == [bytes |-> b, pad |-> 0, pos |-> 0]

\* io.ReadFull(buf, b) with len(b) = n
ReadFull(r, n) ==
    LET avail == Size(r) - r.pos IN
    IF n = 0 THEN [buf |-> r, b |-> <<>>, err |-> "nil"]
    ELSE IF avail = 0 THEN [buf |-> r, b |-> <<>>, err |-> "EOF"]
    ELSE IF avail < n
         THEN [buf |-> [r EXCEPT !.pos = Size(r)],
               b |-> [k \in 1..avail |-> At(r, r.pos + k)],
               err |-> "ErrUnexpectedEOF"]
    ELSE [buf |-> [r EXCEPT !.pos = r.pos + n],
          b |-> [k \in 1..n |-> At(r, r.pos + k)], err |-> "nil"]

(***************************************************************************)
(* readVarNum                                                              *)
(***************************************************************************)
\* a readVarNum that reads two bytes after 0xFE
VarNumRestMut(b0) ==
    CASE b0 = 255 -> 8 [] b0 = 254 -> 2 [] b0 = 253 -> 2 [] OTHER -> 0

\* the bytes that follow the first byte b0
VarNumRest(b0) ==
    CASE b0 = 255 -> 8 [] b0 = 254 -> 4 [] b0 = 253 -> 2 [] OTHER -> 0

\* after the bytes that follow the first byte: the big-endian number
VarNumTail(r2) ==
    IF r2.err # "nil" THEN [buf |-> r2.buf, v |-> U64(0), err |-> r2.err]
    ELSE [buf |-> r2.buf, v |-> Widen(r2.b), err |-> "nil"]

\* after the first byte: `switch b[0]`
VarNumHead(r1) ==
    IF r1.err # "nil" THEN [buf |-> r1.buf, v |-> U64(0), err |-> r1.err]
    ELSE IF VarNumRest(r1.b[1]) = 0
    THEN [buf |-> r1.buf, v |-> Widen(r1.b), err |-> "nil"]
    ELSE VarNumTail(ReadFull(r1.buf, VarNumRest(r1.b[1])))

\* func readVarNum(buf io.Reader) (v uint64, err error)
readVarNum(r) == VarNumHead(ReadFull(r, 1))

(***************************************************************************)
(* The VarNum encoder (wire format: 1, 3, 5 or 9 bytes, the narrowest)     *)
(***************************************************************************)
writeVarNum(a) ==
    IF (\A k \in 1..7 : a[k] = 0) /\ a[8] <= 252 THEN <<a[8]>>
    ELSE IF \A k \in 1..6 : a[k] = 0 THEN <<253>> \o SubSeq(a, 7, 8)
    ELSE IF \A k \in 1..4 : a[k] = 0 THEN <<254>> \o SubSeq(a, 5, 8)
    ELSE <<255>> \o a

(***************************************************************************)
(* readTLV                                                                 *)
(***************************************************************************)
TooLarge(l) == Greater(l, maxSize)

\* the record read: hdr says that the type and the length were read
TLVPayload(t, l, p) ==
    [buf |-> p.buf, t |-> t.v, v |-> p.b, err |-> p.err, hdr |-> TRUE, l |-> l.v]

\* after the length: `if l > maxSize`, then the payload
TLVLength(t, l) ==
    IF l.err # "nil"
    THEN [buf |-> l.buf, t |-> t.v, v |-> <<>>, err |-> l.err, hdr |-> FALSE,
          l |-> U64(0)]
    ELSE IF TooLarge(l.v)
    THEN [buf |-> l.buf, t |-> t.v, v |-> <<>>, err |-> "ErrPacketTooLarge",
          hdr |-> TRUE, l |-> l.v]
    ELSE TLVPayload(t, l, ReadFull(l.buf, ToInt(l.v)))

\* after the type
TLVType(t) ==
    IF t.err # "nil"
    THEN [buf |-> t.buf, t |-> t.v, v |-> <<>>, err |-> t.err, hdr |-> FALSE,
          l |-> U64(0)]
    ELSE TLVLength(t, readVarNum(t.buf))

\* a readTLV that takes a source that ends after the type for an empty record
readTLVMut(r) ==
    LET rd == TLVType(readVarNum(r)) IN
    IF ~rd.hdr /\ rd.err = "EOF" /\ rd.buf.pos > r.pos
    THEN [rd EXCEPT !.err = "nil", !.hdr = TRUE]
    ELSE rd

\* func readTLV(buf io.Reader) (t uint64, v []byte, err error)
readTLV(r) == TLVType(readVarNum(r))

(***************************************************************************)
(* decodeUint64                                                            *)
(***************************************************************************)
decodeUint64(b) ==
    CASE Len(b) = 8 -> Widen(b)
      [] Len(b) = 4 -> Widen(b)
      [] Len(b) = 2 -> Widen(b)
      [] Len(b) = 1 -> Widen(b)
      [] OTHER -> U64(0)

(***************************************************************************)
(* Go types and values.  A type is a record: its kind, its element type    *)
(* (slice, pointer), its fields (struct) and the receiver of the           *)
(* UnmarshalBinary/MarshalBinary methods it declares ("none", "value" or   *)
(* "ptr").  A field is its struct tag and its type.  A bool is a BOOLEAN,  *)
(* a uint64 its 8 bytes, a uint8 a byte, a string or []byte its bytes, a   *)
(* slice the sequence of its elements, a struct the sequence of its        *)
(* fields, and a pointer a record of its address and its referent: "nil",  *)
(* "old" (allocated before the call) or "new" (reflect.New in the call).   *)
(***************************************************************************)
Prim(k) == [kind |-> k, elem |-> <<>>, fields |-> <<>>, recv |-> "none"]

SliceOf(t) == [kind |-> "slice", elem |-> t, fields |-> <<>>, recv |-> "none"]

PtrTo(t) == [kind |-> "ptr", elem |-> t, fields |-> <<>>, recv |-> "none"]

StructOf(fs, recv) == [kind |-> "struct", elem |-> <<>>, fields |-> fs, recv |-> recv]

\* a struct tag: a type number, with the optional and implicit markers
Tag(t, opt, imp) == [ok |-> TRUE, Type |-> t, Optional |-> opt, Implicit |-> imp]

\* a field that carries no tlv tag
NoTag == [ok |-> FALSE, Type |-> U64(0), Optional |-> FALSE, Implicit |-> FALSE]

Field(tag, ty) == [tag |-> tag, ty |-> ty]

RECURSIVE Zero(_)
Zero(ty) ==
    CASE ty.kind = "bool" -> FALSE
      [] ty.kind = "uint64" -> U64(0)
      [] ty.kind = "uint8" -> 0
      [] ty.kind = "ptr" -> [addr |-> "nil", ref |-> Zero(ty.elem)]
      [] ty.kind = "struct" -> [k \in 1..Len(ty.fields) |-> Zero(ty.fields[k].ty)]
      [] OTHER -> <<>>

\* reflect.New(ty): a pointer to a fresh zero value
New(ty) == [addr |-> "new", ref |-> Zero(ty)]

(***************************************************************************)
(* The types of the package's test                                         *)
(***************************************************************************)
\* type special struct { F uint8 }, with methods on *special
special == StructOf(<<Field(NoTag, Prim("uint8"))>>, "ptr")

\* func (s *special) UnmarshalBinary(b []byte) error, on the referent s
UnmarshalBinary(b, s) == IF Len(b) = 1 THEN <<b[1]>> ELSE s

\* func (s *special) MarshalBinary() ([]byte, error)
MarshalBinary(s) == <<s[1]>>

\* type test struct
test ==
    StructOf(<<Field(Tag(U64(255), FALSE, FALSE), SliceOf(Prim("uint64"))),
               Field(Tag(U64(65535), FALSE, FALSE), Prim("string")),
               Field(Tag(<<0, 0, 0, 0, 255, 255, 255, 255>>, FALSE, FALSE),
                     SliceOf(Prim("uint8"))),
               Field(Tag(MaxUint64, FALSE, FALSE), Prim("bool")),
               Field(Tag(U64(1), FALSE, FALSE), special),
               Field(NoTag, Prim("uint8"))>>, "none")

(***************************************************************************)
(* The Reader's Peek and the tag parser, which decode.go calls             *)
(***************************************************************************)
\* Reader.Peek: the type number of the next record, nothing consumed; the
\* largest uint64 when no type number can be read
PeekType(t) == IF t.err # "nil" THEN MaxUint64 ELSE t.v

Peek(r) == PeekType(readVarNum(r))

\* parseTag: the descriptor of a tag, an error when the type number is missing
parseTag(tag) == IF tag.ok THEN [tag |-> tag, err |-> "nil"]
                 ELSE [tag |-> tag, err |-> "ErrTag"]

(***************************************************************************)
(* decodeValue, decode, decodeStruct                                       *)
(***************************************************************************)
\* value.Interface().(encoding.BinaryUnmarshaler): the method set of the
\* value's own type holds UnmarshalBinary
Implements(ty) ==
    \/ ty.recv = "value"
    \/ ty.kind = "ptr" /\ ty.elem.recv # "none"

\* `if value.CanSet()` of the reflect.Ptr case
PtrFresh(val, canSet) == canSet

\* the break at the end of decode's loop body
\* a loop that ends after its first record, whatever the destination
LoopBreakMut(ty) == TRUE

LoopBreak(ty) == ty.kind # "slice" \/ ty.elem.kind = "uint8"

\* decode's `if once { err = nil }`
AfterLoop(it) == IF it.once /\ it.err # "panic" THEN [it EXCEPT !.err = "nil"] ELSE it

\* decodeStruct's `if tag.Implicit { continue }`
\* a decodeStruct that decodes implicit fields too
SkipMut(tag) == FALSE

Skip(tag) == tag.Implicit

\* decodeStruct's `if tag.Optional { err = nil }`
\* a decodeStruct that returns the error of an optional field
SwallowMut(tag) == FALSE

Swallow(tag) == tag.Optional

RECURSIVE decodeValue(_, _, _, _)
RECURSIVE decodeLoop(_, _, _, _, _, _)
RECURSIVE structLoop(_, _, _, _, _)

\* a reflect.Value setter: it panics on a value that cannot be set
Set(val, new, canSet) ==
    IF canSet THEN [value |-> new, err |-> "nil"]
    ELSE [value |-> val, err |-> "panic"]

\* r.UnmarshalBinary(v), r the value itself: a pointer, or a copy
CallUnmarshaler(b, val, ty) ==
    IF ty.kind = "ptr"
    THEN IF Len(b) = 1 /\ val.addr = "nil"
         THEN [value |-> val, err |-> "panic"]
         ELSE [value |-> [val EXCEPT !.ref = UnmarshalBinary(b, val.ref)],
               err |-> "nil"]
    ELSE [value |-> val, err |-> "nil"]

\* value.Set(reflect.Append(value, elem)), e the decoded elem
AppendElem(val, e, canSet) ==
    IF e.err # "nil" THEN [value |-> val, err |-> e.err]
    ELSE Set(val, Append(val, e.value), canSet)

\* value.Set(elem), e the decoded referent of elem := reflect.New(...)
SetElem(val, e) ==
    IF e.err # "nil" THEN [value |-> val, err |-> e.err]
    ELSE [value |-> [addr |-> "new", ref |-> e.value], err |-> "nil"]

\* the referent decoded in place
InPlace(val, e) == [value |-> [val EXCEPT !.ref = e.value], err |-> e.err]

Result(s) == [value |-> s.value, err |-> s.err]

\* func decodeValue(v []byte, value reflect.Value) (err error)
decodeValue(b, val, ty, canSet) ==
    IF Implements(ty) THEN CallUnmarshaler(b, val, ty)
    ELSE CASE ty.kind = "bool" -> Set(val, TRUE, canSet)
      [] ty.kind = "uint64" -> Set(val, decodeUint64(b), canSet)
      [] ty.kind = "slice" ->
            IF ty.elem.kind = "uint8" THEN Set(val, b, canSet)
            ELSE AppendElem(val, decodeValue(b, Zero(ty.elem), ty.elem, TRUE),
                            canSet)
      [] ty.kind = "string" -> Set(val, b, canSet)
      [] ty.kind = "ptr" ->
            IF PtrFresh(val, canSet)
            THEN SetElem(val, decodeValue(b, Zero(ty.elem), ty.elem, TRUE))
            ELSE IF val.addr = "nil"
                 THEN \* value.Elem() is the zero Value: Interface() panics
                      [value |-> val, err |-> "panic"]
                 ELSE InPlace(val, decodeValue(b, val.ref, ty.elem, TRUE))
      [] ty.kind = "struct" ->
            Result(structLoop(NewReader(b), val, ty, canSet, 1))
      [] OTHER -> [value |-> val, err |-> "ErrNotSupported"]

\* how an iteration that called readTLV ended; d is decodeValue's result
IterEnd(rd, d, ty, onc) ==
    IF d.err # "nil"
    THEN [buf |-> rd.buf, value |-> d.value, once |-> onc, err |-> d.err,
          brk |-> TRUE, rd |-> "record", v |-> rd.v, l |-> rd.l]
    ELSE [buf |-> rd.buf, value |-> d.value, once |-> TRUE, err |-> "nil",
          brk |-> LoopBreak(ty), rd |-> "record", v |-> rd.v, l |-> rd.l]

\* the iteration after readTLV; rd is readTLV's result
IterRead(rd, val, ty, canSet, onc) ==
    IF rd.err # "nil"
    THEN [buf |-> rd.buf, value |-> val, once |-> onc, err |-> rd.err,
          brk |-> TRUE,
          rd |-> IF ~rd.hdr THEN "short"
                 ELSE IF rd.err = "ErrPacketTooLarge" THEN "large"
                 ELSE "trunc",
          v |-> <<>>, l |-> rd.l]
    ELSE IterEnd(rd, decodeValue(rd.v, val, ty, canSet), ty, onc)

\* one iteration of decode's for loop
decodeIter(r, val, ty, canSet, vt, onc) ==
    IF Peek(r) # vt
    THEN [buf |-> r, value |-> val, once |-> onc, err |-> "ErrUnexpectedType",
          brk |-> TRUE, rd |-> "none", v |-> <<>>, l |-> U64(0)]
    ELSE IterRead(readTLV(r), val, ty, canSet, onc)

\* the loop from an iteration on; it is the iteration's result
LoopFrom(it, ty, canSet, vt) ==
    IF it.brk THEN AfterLoop(it)
    ELSE decodeLoop(it.buf, it.value, ty, canSet, vt, it.once)

decodeLoop(r, val, ty, canSet, vt, onc) ==
    LoopFrom(decodeIter(r, val, ty, canSet, vt, onc), ty, canSet, vt)

\* func decode(buf Reader, value reflect.Value, valType uint64) (err error)
decode(r, val, ty, canSet, vt) == decodeLoop(r, val, ty, canSet, vt, FALSE)

\* decodeStruct after decode(buf, fieldValue, tag.Type); d is its result.
\* ret says that decodeStruct returns from inside the loop
FieldEnd(d, sv, k, tag) ==
    IF d.err = "nil" \/ (d.err # "panic" /\ Swallow(tag))
    THEN [buf |-> d.buf, value |-> [sv EXCEPT ![k] = d.value], err |-> "nil",
          ret |-> FALSE]
    ELSE [buf |-> d.buf, value |-> [sv EXCEPT ![k] = d.value], err |-> d.err,
          ret |-> TRUE]

\* decodeStruct after parseTag; pt is its result
FieldTag(pt, r, sv, fty, canSet, k) ==
    IF pt.err # "nil"
    THEN [buf |-> r, value |-> sv, err |-> pt.err, ret |-> TRUE]
    ELSE IF Skip(pt.tag)
    THEN [buf |-> r, value |-> sv, err |-> "nil", ret |-> FALSE]
    ELSE FieldEnd(decode(r, sv[k], fty, canSet, pt.tag.Type), sv, k, pt.tag)

\* one iteration of decodeStruct's loop, for field k (the source's i + 1)
structField(r, sv, ty, canSet, k) ==
    FieldTag(parseTag(ty.fields[k].tag), r, sv, ty.fields[k].ty, canSet, k)

\* decodeStruct's loop from an iteration on; s is the iteration's result
StructFrom(s, ty, canSet, k) ==
    IF s.ret THEN [buf |-> s.buf, value |-> s.value, err |-> s.err]
    ELSE structLoop(s.buf, s.value, ty, canSet, k + 1)

structLoop(r, sv, ty, canSet, k) ==
    IF k > Len(ty.fields)
    THEN [buf |-> r, value |-> sv, err |-> "nil"]
    ELSE StructFrom(structField(r, sv, ty, canSet, k), ty, canSet, k)

\* func decodeStruct(buf Reader, structValue reflect.Value) (err error)
decodeStruct(r, sv, ty, canSet) == structLoop(r, sv, ty, canSet, 1)

(***************************************************************************)
(* Marshal: the encoder, the inverse the decoder is checked against        *)
(***************************************************************************)
\* the narrowest of 1, 2, 4 or 8 bytes that holds a
encodeUint64(a) ==
    IF \A k \in 1..7 : a[k] = 0 THEN <<a[8]>>
    ELSE IF \A k \in 1..6 : a[k] = 0 THEN SubSeq(a, 7, 8)
    ELSE IF \A k \in 1..4 : a[k] = 0 THEN SubSeq(a, 5, 8)
    ELSE a

writeTLV(t, b) == writeVarNum(t) \o writeVarNum(U64(Len(b))) \o b

RECURSIVE encode(_, _, _)
RECURSIVE encodeEach(_, _, _, _)
RECURSIVE encodeFields(_, _, _)

encode(val, ty, vt) ==
    IF ty.recv # "none" THEN writeTLV(vt, MarshalBinary(val))
    ELSE CASE ty.kind = "bool" -> IF val THEN writeTLV(vt, <<>>) ELSE <<>>
      [] ty.kind = "uint64" -> writeTLV(vt, encodeUint64(val))
      [] ty.kind = "string" -> writeTLV(vt, val)
      [] ty.kind = "slice" ->
            IF ty.elem.kind = "uint8" THEN writeTLV(vt, val)
            ELSE encodeEach(val, ty.elem, vt, 1)
      [] ty.kind = "ptr" ->
            IF val.addr = "nil" THEN <<>> ELSE encode(val.ref, ty.elem, vt)
      [] ty.kind = "struct" -> writeTLV(vt, encodeFields(val, ty, 1))
      [] OTHER -> <<>>

\* one record per element of a repeated field, from element k on
encodeEach(val, ety, vt, k) ==
    IF k > Len(val) THEN <<>>
    ELSE encode(val[k], ety, vt) \o encodeEach(val, ety, vt, k + 1)

\* the records of the fields of a composite, from field k on; a field with
\* no descriptor, or an implicit one, is not on the wire
encodeFields(sv, ty, k) ==
    IF k > Len(ty.fields) THEN <<>>
    ELSE LET f == ty.fields[k] IN
         (IF ~f.tag.ok \/ f.tag.Implicit THEN <<>>
          ELSE encode(sv[k], f.ty, f.tag.Type))
         \o encodeFields(sv, ty, k + 1)

\* func Marshal(buf Writer, i interface{}, valType uint64) error
Marshal(val, ty, vt) == encode(val, ty, vt)

\* reflect.DeepEqual on values of type ty
RECURSIVE DeepEqual(_, _, _)
DeepEqual(ty, a, b) ==
    CASE ty.kind = "ptr" ->
            /\ (a.addr = "nil") = (b.addr = "nil")
            /\ a.addr # "nil" => DeepEqual(ty.elem, a.ref, b.ref)
      [] ty.kind = "struct" ->
            \A k \in 1..Len(ty.fields) : DeepEqual(ty.fields[k].ty, a[k], b[k])
      [] ty.kind = "slice" /\ ty.elem.kind # "uint8" ->
            /\ Len(a) = Len(b)
            /\ \A k \in 1..Len(a) : DeepEqual(ty.elem, a[k], b[k])
      [] OTHER -> a = b

(***************************************************************************)
(* The inputs of the model: destinations, type numbers, byte sources       *)
(***************************************************************************)
\* the most records a drawn byte source is made of
MaxRecs == 2

uint64T == Prim("uint64")

boolT == Prim("bool")

stringT == Prim("string")

uint8T == Prim("uint8")

bytesT == SliceOf(uint8T)

\* struct { A uint64 (type 2); B bool (type 3, optional) }
inner ==
    StructOf(<<Field(Tag(U64(2), FALSE, FALSE), uint64T),
               Field(Tag(U64(3), TRUE, FALSE), boolT)>>, "none")

\* struct { P *inner (type 1) }
holder == StructOf(<<Field(Tag(U64(1), FALSE, FALSE), PtrTo(inner))>>, "none")

\* type test without its Special and unexported fields
plain == StructOf(SubSeq(test.fields, 1, 4), "none")

\* a pointer to a value allocated before the call
Ptr(x) == [addr |-> "old", ref |-> x]

Nil(ty) == Zero(PtrTo(ty))

\* struct { X uint64 (type 2, optional); Y uint64 (type 3) }
opt ==
    StructOf(<<Field(Tag(U64(2), TRUE, FALSE), uint64T),
               Field(Tag(U64(3), FALSE, FALSE), uint64T)>>, "none")

\* struct { H uint64 (type 2, implicit); Y uint64 (type 2) }
imp ==
    StructOf(<<Field(Tag(U64(2), FALSE, TRUE), uint64T),
               Field(Tag(U64(2), FALSE, FALSE), uint64T)>>, "none")

\* struct { N []uint64 (type 2); B bool (type 3, optional) }
rep ==
    StructOf(<<Field(Tag(U64(2), FALSE, FALSE), SliceOf(uint64T)),
               Field(Tag(U64(3), TRUE, FALSE), boolT)>>, "none")

\* struct { N []uint64 (type 2, optional); Y uint64 (type 3) }
repopt ==
    StructOf(<<Field(Tag(U64(2), TRUE, FALSE), SliceOf(uint64T)),
               Field(Tag(U64(3), FALSE, FALSE), uint64T)>>, "none")

\* struct { N []uint64 (type 2^64-1) }
repmax == StructOf(<<Field(Tag(MaxUint64, FALSE, FALSE), SliceOf(uint64T))>>, "none")

\* struct { B bool (type 3, optional); H uint64 (type 3, optional, implicit);
\*          N []uint64 (type 2^64-1, optional); P *inner (type 2, optional) }
mix ==
    StructOf(<<Field(Tag(U64(3), TRUE, FALSE), boolT),
               Field(Tag(U64(3), TRUE, TRUE), uint64T),
               Field(Tag(MaxUint64, TRUE, FALSE), SliceOf(uint64T)),
               Field(Tag(U64(2), TRUE, FALSE), PtrTo(inner))>>, "none")

\* the named types of the model
Base(name) ==
    CASE name = "uint64" -> uint64T
      [] name = "bool" -> boolT
      [] name = "string" -> stringT
      [] name = "uint8" -> uint8T
      [] name = "[]byte" -> bytesT
      [] name = "[]uint64" -> SliceOf(uint64T)
      [] name = "special" -> special
      [] name = "[]special" -> SliceOf(special)
      [] name = "inner" -> inner
      [] name = "[]inner" -> SliceOf(inner)
      [] name = "holder" -> holder
      [] name = "plain" -> plain
      [] name = "test" -> test
      [] name = "opt" -> opt
      [] name = "imp" -> imp
      [] name = "rep" -> rep
      [] name = "repopt" -> repopt
      [] name = "repmax" -> repmax
      [] name = "mix" -> mix

\* the type of n pointers to the named type
RECURSIVE Pointers(_, _)
Pointers(n, name) == IF n = 0 THEN Base(name) ELSE PtrTo(Pointers(n - 1, name))

TypeOf(t) == Pointers(t.ptr, t.base)

\* what the caller's pointer i points to: a type and the value it holds
Targets ==
    { [ty |-> [ptr |-> 0, base |-> "uint64"], val |-> U64(0)],
      [ty |-> [ptr |-> 0, base |-> "bool"], val |-> FALSE],
      [ty |-> [ptr |-> 0, base |-> "string"], val |-> <<>>],
      [ty |-> [ptr |-> 0, base |-> "[]byte"], val |-> <<>>],
      [ty |-> [ptr |-> 0, base |-> "uint8"], val |-> 0],
      [ty |-> [ptr |-> 0, base |-> "[]uint64"], val |-> <<>>],
      [ty |-> [ptr |-> 0, base |-> "[]uint64"], val |-> <<U64(9)>>],
      [ty |-> [ptr |-> 0, base |-> "special"], val |-> <<0>>],
      [ty |-> [ptr |-> 1, base |-> "special"], val |-> Nil(special)],
      [ty |-> [ptr |-> 1, base |-> "special"], val |-> Ptr(<<0>>)],
      [ty |-> [ptr |-> 0, base |-> "[]special"], val |-> <<>>],
      [ty |-> [ptr |-> 0, base |-> "inner"], val |-> Zero(inner)],
      [ty |-> [ptr |-> 0, base |-> "inner"], val |-> <<U64(9), TRUE>>],
      [ty |-> [ptr |-> 1, base |-> "inner"], val |-> Nil(inner)],
      [ty |-> [ptr |-> 1, base |-> "inner"], val |-> Ptr(<<U64(9), TRUE>>)],
      [ty |-> [ptr |-> 0, base |-> "[]inner"], val |-> <<>>] }

\* the argument i of Unmarshal: a pointer to a target, or a struct by value
Dests ==
    { [ty |-> [t.ty EXCEPT !.ptr = @ + 1], val |-> Ptr(t.val)] : t \in Targets }
    \cup { [ty |-> [ptr |-> 0, base |-> "holder"], val |-> <<Nil(inner)>>],
           [ty |-> [ptr |-> 0, base |-> "holder"],
            val |-> <<Ptr(<<U64(9), TRUE>>)>>] }

ValTypes == {U64(1), MaxUint64}

\* the pieces a byte source is made of: records, whole or cut short
Items ==
    { writeTLV(U64(1), <<>>),
      writeTLV(U64(1), <<7>>),
      writeTLV(U64(1), <<1, 2, 3>>),
      writeTLV(U64(1), writeTLV(U64(2), <<5>>)),
      writeTLV(U64(1), writeTLV(U64(2), <<5>>) \o writeTLV(U64(3), <<>>)),
      writeTLV(U64(1), writeTLV(U64(3), <<>>)),
      writeTLV(U64(2), <<7>>),
      writeTLV(MaxUint64, <<>>),
      <<1>> \o writeVarNum(U64(maxSize + 1)),
      <<1, 5, 9>>,
      <<1>> }

RECURSIVE Concats(_)
Concats(n) ==
    IF n = 0 THEN {<<>>}
    ELSE Concats(n - 1) \cup {s \o i : s \in Concats(n - 1), i \in Items}

Streams == Concats(MaxRecs)

\* the byte sources: the drawn bytes; the header of a record longer than
\* maxSize with all of its payload; a record of exactly maxSize bytes
Sources ==
    { [bytes |-> s, pad |-> 0, pos |-> 0] : s \in Streams }
    \cup { [bytes |-> s \o <<1>> \o writeVarNum(U64(maxSize + 1)),
            pad |-> maxSize + 1, pos |-> 0] : s \in Concats(MaxRecs - 1) }
    \cup { [bytes |-> <<1>> \o writeVarNum(U64(maxSize)), pad |-> maxSize,
            pos |-> 0] }

\* the bytes of "string"
StringBytes == <<115, 116, 114, 105, 110, 103>>

\* v1 of TestTLV
TestValue ==
    << <<U64(255), U64(65535), <<0, 0, 0, 0, 255, 255, 255, 255>>, MaxUint64>>,
       StringBytes, <<1, 2, 3>>, TRUE, <<1>>, 0 >>

\* the values Marshal is given
RoundTrips ==
    { [ty |-> "test", val |-> TestValue] }
    \cup { [ty |-> "plain", val |-> <<n, s, <<1, 2, 3>>, b>>] :
             n \in {<<>>, <<U64(255)>>, SubSeq(TestValue[1], 1, 4)},
             s \in {<<>>, StringBytes}, b \in BOOLEAN }
    \cup { [ty |-> "inner", val |-> <<U64(a), b>>] : a \in {0, 300}, b \in BOOLEAN }

NoLast == [rd |-> "none", v |-> <<>>, l |-> U64(0), at |-> 0]

Idle ==
    /\ settable = FALSE /\ once = FALSE /\ err = "nil" /\ iters = 0 /\ recs = 0
    /\ fld = 0 /\ last = NoLast /\ absent = {} /\ num = U64(0) /\ v = U64(0)

\* a call of Unmarshal on a drawn byte source
InitRaw ==
    /\ pc = "call"
    /\ buf \in Sources
    /\ \E d \in Dests : vtype = d.ty /\ value = d.val
    /\ valType \in ValTypes
    /\ orig = <<>>
    /\ start = [value |-> value, buf |-> buf]
    /\ Idle

\* TestTLV: Marshal(buf, v1, t), v2 := new(T), Unmarshal(NewReader(buf), &v2, t)
InitRoundTrip ==
    /\ pc = "marshal"
    /\ buf = NewReader(<<>>)
    /\ \E rt \in RoundTrips :
          /\ orig = <<Ptr(rt.val)>>
          /\ vtype = [ptr |-> 2, base |-> rt.ty]
          /\ value = Ptr(Ptr(Zero(Base(rt.ty))))
    /\ valType \in ValTypes
    /\ start = [value |-> value, buf |-> buf]
    /\ Idle

Init == InitRaw \/ InitRoundTrip

(***************************************************************************)
(* The call of Unmarshal, one action per step of decode's loop             *)
(***************************************************************************)
MarshalCall ==
    /\ pc = "marshal"
    /\ buf' = NewReader(Marshal(orig[1], PtrTo(Base(vtype.base)), valType))
    /\ pc' = "call"
    /\ UNCHANGED <<value, vtype, settable, valType, once, err, iters, recs,
                   start, orig, fld, last, absent, num, v>>

\* Unmarshal: reflect.Indirect(reflect.ValueOf(i)), and decode's `var once bool`
Unmarshal ==
    /\ pc = "call"
    /\ IF vtype.ptr > 0
       THEN /\ value' = value.ref
            /\ vtype' = [vtype EXCEPT !.ptr = @ - 1]
            /\ settable' = TRUE
       ELSE /\ UNCHANGED <<value, vtype>>
            /\ settable' = FALSE
    /\ once' = FALSE
    /\ start' = [value |-> value', buf |-> buf]
    /\ pc' = "loop"
    /\ UNCHANGED <<buf, valType, err, iters, recs, orig, fld, last, absent,
                   num, v>>

\* one iteration of the loop of decode
DecodeIter ==
    /\ pc = "loop"
    /\ LET it == decodeIter(buf, value, TypeOf(vtype), settable, valType, once) IN
          /\ buf' = it.buf
          /\ value' = it.value
          /\ once' = it.once
          /\ err' = it.err
          /\ last' = [rd |-> it.rd, v |-> it.v, l |-> it.l, at |-> buf.pos]
          /\ recs' = IF it.rd = "record" THEN recs + 1 ELSE recs
          /\ pc' = IF it.brk THEN "ret" ELSE "loop"
    /\ iters' = iters + 1
    /\ UNCHANGED <<vtype, settable, valType, start, orig, fld, absent, num, v>>

\* decode's `if once { err = nil }; return`
DecodeReturn ==
    /\ pc = "ret"
    /\ err' = AfterLoop([once |-> once, err |-> err]).err
    /\ pc' = "done"
    /\ UNCHANGED <<buf, value, vtype, settable, valType, once, iters, recs,
                   start, orig, fld, last, absent, num, v>>

Next == MarshalCall \/ Unmarshal \/ DecodeIter \/ DecodeReturn

Spec == Init /\ [][Next]_vars

(***************************************************************************)
(* A call of decodeStruct, one action per iteration of its loop            *)
(***************************************************************************)
\* the most records a byte source handed to decodeStruct is made of
MaxFieldRecs == 3

FieldItems ==
    { writeTLV(U64(2), <<7>>),
      writeTLV(U64(2), <<1, 2>>),
      writeTLV(U64(2), writeTLV(U64(2), <<5>>)),
      writeTLV(U64(3), <<>>),
      writeTLV(U64(3), <<8>>),
      writeTLV(MaxUint64, <<9>>),
      <<2>> \o writeVarNum(U64(maxSize + 1)),
      <<2, 5, 9>>,
      <<253, 0>> }

RECURSIVE FieldConcats(_)
FieldConcats(n) ==
    IF n = 0 THEN {<<>>}
    ELSE FieldConcats(n - 1)
         \cup {s \o i : s \in FieldConcats(n - 1), i \in FieldItems}

\* the structs decodeStruct is called on: a type and the value it holds
Structs ==
    { [ty |-> n, val |-> Zero(Base(n))] :
        n \in {"opt", "imp", "rep", "repopt", "repmax", "mix", "special"} }
    \cup { [ty |-> "opt", val |-> <<U64(9), U64(9)>>],
           [ty |-> "imp", val |-> <<U64(9), U64(9)>>],
           [ty |-> "rep", val |-> <<<<U64(9)>>, TRUE>>],
           [ty |-> "mix", val |-> <<TRUE, U64(9), <<U64(9)>>, Ptr(<<U64(9), TRUE>>)>>] }

NoField == [k |-> 0, buf |-> NewReader(<<>>), value |-> <<>>]

InitStruct ==
    /\ pc = "fields"
    /\ \E s \in FieldConcats(MaxFieldRecs) : buf = NewReader(s)
    /\ \E d \in Structs : vtype = [ptr |-> 0, base |-> d.ty] /\ value = d.val
    /\ settable = TRUE
    /\ start = [value |-> value, buf |-> buf]
    /\ fld = 0 /\ err = "nil" /\ last = NoField /\ absent = {}
    /\ valType = U64(0) /\ once = FALSE /\ iters = 0 /\ recs = 0
    /\ orig = <<>> /\ num = U64(0) /\ v = U64(0)

\* whether field k is an optional field whose type number Peek does not return
Absent(r, ty, k) ==
    /\ parseTag(ty.fields[k].tag).err = "nil"
    /\ ~ty.fields[k].tag.Implicit
    /\ ty.fields[k].tag.Optional
    /\ Peek(r) # ty.fields[k].tag.Type

\* one iteration of the loop of decodeStruct
StructField ==
    /\ pc = "fields"
    /\ fld < Len(TypeOf(vtype).fields)
    /\ LET s == structField(buf, value, TypeOf(vtype), settable, fld + 1) IN
          /\ buf' = s.buf
          /\ value' = s.value
          /\ err' = s.err
          /\ pc' = IF s.ret THEN "done" ELSE "fields"
          /\ fld' = IF s.ret THEN fld ELSE fld + 1
    /\ last' = [k |-> fld + 1, buf |-> buf, value |-> value]
    /\ absent' = IF Absent(buf, TypeOf(vtype), fld + 1)
                 THEN absent \cup {fld + 1} ELSE absent
    /\ UNCHANGED <<vtype, settable, valType, once, iters, recs, start, orig,
                   num, v>>

\* the loop of decodeStruct has ended: `return`
StructReturn ==
    /\ pc = "fields"
    /\ fld = Len(TypeOf(vtype).fields)
    /\ pc' = "done"
    /\ UNCHANGED <<buf, value, vtype, settable, valType, once, err, iters,
                   recs, start, orig, fld, last, absent, num, v>>

NextStruct == StructField \/ StructReturn

SpecStruct == InitStruct /\ [][NextStruct]_vars

(***************************************************************************)
(* A call of readVarNum, on an encoded number or on drawn bytes            *)
(***************************************************************************)
\* 2^32 - 1 and 2^32
Max32 == <<0, 0, 0, 0, 255, 255, 255, 255>>

Two32 == <<0, 0, 0, 1, 0, 0, 0, 0>>

Boundary == {U64(0), U64(252), U64(253), U64(65535), U64(65536), Max32, Two32,
             MaxUint64}

Nums ==
    Boundary
    \cup {U64(1), U64(251), U64(254), U64(255), U64(256), U64(65534),
          U64(65537), U64(16777216), <<0, 0, 0, 0, 255, 255, 255, 254>>,
          <<0, 0, 0, 1, 0, 0, 0, 1>>, <<1, 2, 3, 4, 5, 6, 7, 8>>,
          <<255, 255, 255, 255, 255, 255, 255, 254>>}

\* the bytes that follow the number in the source
Tails == {<<>>, <<170>>, <<255, 1>>}

\* byte sources no canonical encoder writes: wider forms, and cut ones
RawNums ==
    { <<>>, <<253>>, <<253, 0>>, <<253, 0, 5>>, <<254, 0, 0, 0, 5>>,
      <<254, 0, 0, 5>>, <<255, 0, 0, 0, 0, 0, 0, 0, 5>>,
      <<255, 0, 0, 0, 0, 0, 0, 5>>, <<253, 0, 5, 9>> }

InitVarNum ==
    /\ \/ /\ pc = "write"
          /\ num \in Nums
          /\ buf = NewReader(<<>>)
          /\ orig = <<num>>
       \/ /\ pc = "read"
          /\ num = U64(0)
          /\ \E b \in RawNums : buf = NewReader(b)
          /\ orig = <<>>
    /\ v = U64(0) /\ err = "nil"
    /\ value = <<>> /\ vtype = [ptr |-> 0, base |-> "uint64"]
    /\ settable = FALSE /\ valType = U64(0) /\ once = FALSE /\ iters = 0
    /\ recs = 0 /\ start = [value |-> <<>>, buf |-> buf] /\ fld = 0
    /\ last = NoLast /\ absent = {}

\* the encoder writes num
WriteVarNum ==
    /\ pc = "write"
    /\ buf' = [buf EXCEPT !.bytes = @ \o writeVarNum(num)]
    /\ pc' = "more"
    /\ UNCHANGED <<value, vtype, settable, valType, once, err, iters, recs,
                   start, orig, fld, last, absent, num, v>>

\* more bytes follow the number
WriteMore ==
    /\ pc = "more"
    /\ \E t \in Tails : buf' = [buf EXCEPT !.bytes = @ \o t]
    /\ pc' = "read"
    /\ UNCHANGED <<value, vtype, settable, valType, once, err, iters, recs,
                   start, orig, fld, last, absent, num, v>>

ReadVarNum ==
    /\ pc = "read"
    /\ LET r == readVarNum(buf) IN
          /\ buf' = r.buf
          /\ v' = r.v
          /\ err' = r.err
    /\ pc' = "done"
    /\ UNCHANGED <<value, vtype, settable, valType, once, iters, recs, start,
                   orig, fld, last, absent, num>>

NextVarNum == WriteVarNum \/ WriteMore \/ ReadVarNum

SpecVarNum == InitVarNum /\ [][NextVarNum]_vars

(***************************************************************************)
(* The claims                                                              *)
(***************************************************************************)
Done == pc = "done"

\* C1 (as claimed): Unmarshal of the bytes Marshal(v, t) wrote, with the same
\* t, succeeds and leaves a destination structurally equal to v.
C1_RoundTrip ==
    (Done /\ orig # <<>>) =>
        /\ err = "nil"
        /\ DeepEqual(TypeOf(vtype), value, orig[1])

\* the bytes of the header of the record the last iteration read
HeaderLen == Len(writeVarNum(valType)) + Len(writeVarNum(last.l))

\* C2 (as claimed): when decode reaches a record whose declared length is
\* above maxSize, the call returns ErrPacketTooLarge and the Reader stands
\* right after the record's header: no payload byte is read.
C2_SizeEnforced ==
    (Done /\ last.rd = "large") =>
        /\ err = "ErrPacketTooLarge"
        /\ buf.pos = last.at + HeaderLen

\* s without the elements whose index is in drop
Without(s, drop) ==
    LET idx == SelectSeq([j \in 1..Len(s) |-> j], LAMBDA j : j \notin drop)
    IN  [j \in 1..Len(idx) |-> s[idx[j]]]

\* the struct type ty without the fields in drop
WithoutFields(ty, drop) == StructOf(Without(ty.fields, drop), ty.recv)

\* decodeStruct on the struct the call began with, its fields in drop removed
DecodedWithout(drop) ==
    decodeStruct(start.buf, Without(start.value, drop),
                 WithoutFields(TypeOf(vtype), drop), settable)

\* C3: when decodeStruct reaches an optional field and Peek does not return
\* the field's type number, the field keeps its value (the zero value in a
\* fresh destination), no byte is consumed, no error is set and the loop goes
\* on; the call ends as the call on the struct without that field does.
C3_OptionalAbsence ==
    /\ (last.k # 0 /\ last.k \in absent) =>
          /\ buf = last.buf
          /\ value = last.value
          /\ err = "nil"
          /\ fld = last.k
    /\ Done =>
          \A k \in absent :
             /\ value[k] = start.value[k]
             /\ DecodedWithout({k}).err = err
             /\ DecodedWithout({k}).buf = buf
             /\ DecodedWithout({k}).value = Without(value, {k})

C3_Witness ==
    /\ Done
    /\ vtype.base = "opt"
    /\ absent = {1}
    /\ start.value = Zero(opt)
    /\ value = <<U64(0), U64(8)>>
    /\ err = "nil"

\* the repeated field the last iteration of decodeStruct decoded, if it did
RepeatedField ==
    /\ last.k # 0
    /\ TypeOf(vtype).fields[last.k].tag.ok
    /\ ~TypeOf(vtype).fields[last.k].tag.Implicit
    /\ TypeOf(vtype).fields[last.k].ty.kind = "slice"
    /\ TypeOf(vtype).fields[last.k].ty.elem.kind = "uint64"

\* the whole records of type t at the head of r: their payloads and the
\* Reader after them; ok when a record of another type or the end follows
RECURSIVE Run(_, _)
Run(r, t) ==
    IF r.pos = Size(r) THEN [ok |-> TRUE, elems |-> <<>>, buf |-> r, end |-> TRUE]
    ELSE IF readVarNum(r).err # "nil"
    THEN [ok |-> FALSE, elems |-> <<>>, buf |-> r, end |-> FALSE]
    ELSE IF readVarNum(r).v # t
    THEN [ok |-> TRUE, elems |-> <<>>, buf |-> r, end |-> FALSE]
    ELSE IF readTLV(r).err # "nil"
    THEN [ok |-> FALSE, elems |-> <<>>, buf |-> r, end |-> FALSE]
    ELSE [Run(readTLV(r).buf, t) EXCEPT !.elems = <<readTLV(r).v>> \o @]

LastTag == TypeOf(vtype).fields[last.k].tag

LastRun == Run(last.buf, LastTag.Type)

\* n >= 1 records: n elements are appended in wire order, and the Reader
\* stands before the first record of another type
RunDecoded ==
    /\ err = "nil"
    /\ fld = last.k
    /\ buf = LastRun.buf
    /\ value = [last.value EXCEPT ![last.k] =
                   @ \o [j \in 1..Len(LastRun.elems) |->
                            decodeUint64(LastRun.elems[j])]]

\* no record, optional field: the struct and the Reader are as before
NoneOptional ==
    /\ err = "nil"
    /\ fld = last.k
    /\ buf = last.buf
    /\ value = last.value

\* C4: n records of a repeated field's type, then a record of
\* another type or the end of the stream, give n elements in wire order and
\* leave the next record unconsumed; with n = 0 an optional field succeeds
\* and a required field aborts decodeStruct with ErrUnexpectedType.
C4_Cardinality ==
    (RepeatedField /\ LastRun.ok) =>
        /\ Len(LastRun.elems) > 0 => RunDecoded
        /\ (Len(LastRun.elems) = 0 /\ LastTag.Optional) => NoneOptional
        /\ (Len(LastRun.elems) = 0 /\ ~LastTag.Optional) =>
              /\ Done
              /\ err = "ErrUnexpectedType"
              /\ fld = last.k - 1

\* the implicit fields of a struct type
Implicits(ty) ==
    {k \in 1..Len(ty.fields) : ty.fields[k].tag.ok /\ ty.fields[k].tag.Implicit}

\* C5: decodeStruct consumes nothing and changes nothing for an implicit
\* field; the error, the Reader and the other fields end as in the call on
\* the struct without its implicit fields, and the implicit fields keep the
\* values they had before the call.
C5_ImplicitInvisible ==
    /\ (last.k # 0 /\ last.k \in Implicits(TypeOf(vtype))) =>
          /\ buf = last.buf
          /\ value = last.value
          /\ err = "nil"
          /\ fld = last.k
    /\ Done =>
          /\ \A k \in Implicits(TypeOf(vtype)) : value[k] = start.value[k]
          /\ DecodedWithout(Implicits(TypeOf(vtype))).err = err
          /\ DecodedWithout(Implicits(TypeOf(vtype))).buf = buf
          /\ DecodedWithout(Implicits(TypeOf(vtype))).value
                = Without(value, Implicits(TypeOf(vtype)))

C5_Witness ==
    /\ Done
    /\ vtype.base = "imp"
    /\ start.value = <<U64(9), U64(9)>>
    /\ value = <<U64(9), U64(7)>>
    /\ err = "nil"
    /\ buf.pos = 3

\* the widths the claim lists for the boundary numbers
ClaimedWidth(a) ==
    CASE a = U64(0) -> 1 [] a = U64(252) -> 3 [] a = U64(253) -> 3
      [] a = U64(65535) -> 5 [] a = U64(65536) -> 5 [] a = Max32 -> 9
      [] a = Two32 -> 9 [] a = MaxUint64 -> 9

\* the widths of the canonical encodings of the boundary numbers
Width(a) ==
    CASE a = U64(0) -> 1 [] a = U64(252) -> 1 [] a = U64(253) -> 3
      [] a = U64(65535) -> 3 [] a = U64(65536) -> 5 [] a = Max32 -> 5
      [] a = Two32 -> 9 [] a = MaxUint64 -> 9

\* readVarNum gave back the encoded number and consumed its encoding only
ReadBack ==
    /\ err = "nil"
    /\ v = num
    /\ buf.pos = Len(writeVarNum(num))
    /\ SubSeq(buf.bytes, 1, buf.pos) = writeVarNum(num)

\* C6 (as claimed): readVarNum of the canonical encoding of a boundary number
\* returns the number and consumes exactly the encoding, which is 1, 3, 3, 5,
\* 5, 9, 9, 9 bytes wide for 0, 252, 253, 65535, 65536, 2^32-1, 2^32, 2^64-1.
C6_Original ==
    (Done /\ orig # <<>> /\ num \in Boundary) =>
        /\ ReadBack
        /\ buf.pos = ClaimedWidth(num)

\* C6 (amended): the same, with the widths 1, 1, 3, 3, 5, 5, 9, 9.
C6_BoundaryInverse ==
    (Done /\ orig # <<>> /\ num \in Boundary) =>
        /\ ReadBack
        /\ buf.pos = Width(num)

C6_Witness ==
    /\ Done
    /\ orig = <<Max32>>
    /\ v = Max32
    /\ buf.pos = 5
    /\ Len(buf.bytes) = 7

\* C7 (as claimed): a value whose type declares UnmarshalBinary is decoded
\* by that method, given the record's payload, not by structural dispatch.
C7_OverridePrecedence ==
    (Done /\ last.rd = "record" /\ TypeOf(vtype).recv # "none") =>
        /\ err = "nil"
        /\ value = UnmarshalBinary(last.v, start.value)

\* C8 (as claimed): a record decoded into a uint64 whose payload is not 1, 2,
\* 4 or 8 bytes long is a decode error.
C8_BadUintLength ==
    (Done /\ vtype = [ptr |-> 0, base |-> "uint64"] /\ last.rd = "record"
          /\ Len(last.v) \notin {1, 2, 4, 8}) =>
        err # "nil"

\* C9 (as claimed): decode into a pointer that has a referent writes into
\* that referent: the pointer still holds the address it held, and a field
\* of the referent that no record names keeps its value.
C9_ExistingReferent ==
    (Done /\ vtype.ptr = 1 /\ start.value.addr # "nil") =>
        /\ value.addr = start.value.addr
        /\ (vtype.base = "inner" /\ last.v = writeTLV(U64(2), <<5>>)) =>
              value.ref[2] = start.value.ref[2]

\* C10: decode's loop ends.  An iteration that does not break has consumed a
\* whole record, of two header bytes at least, so the iterations begun are at
\* most the records consumed plus one, and twice the records consumed are at
\* most the bytes read, which are at most the bytes of the source.
C10_Termination ==
    (pc \in {"loop", "ret", "done"}) =>
        /\ iters <= recs + 1
        /\ pc = "loop" => iters = recs
        /\ 2 * recs <= buf.pos - start.buf.pos
        /\ buf.pos <= Size(buf)

C10_Witness ==
    /\ Done
    /\ valType = MaxUint64
    /\ vtype = [ptr |-> 0, base |-> "[]uint64"]
    /\ iters = 3
    /\ recs = 2
    /\ buf.pos = Size(buf)
    /\ err = "nil"

====
